---- MODULE Spec2Model ----
(***************************************************************************)
(* DN Sentinel Kernel (src/app3.py): the two signal tabs (HRV, VO2) of the *)
(* Streamlit script, their number inputs, CALCULATE buttons and cached     *)
(* results in st.session_state, and the arithmetic of one CALCULATE.       *)
(*                                                                         *)
(* Python floats are binary floating point numbers rounded to nearest,     *)
(* ties to even, after every operation.  The model keeps that arithmetic   *)
(* with a significand of Prec bits (53 in CPython) and a smallest exponent *)
(* of -Frac: a float is the integer n standing for n / 2^Frac, and every   *)
(* operation rounds its exact result to Prec significant bits.             *)
(***************************************************************************)
EXTENDS Integers, FiniteSets, Sequences, TLC

\* Significand width of the float format.
Prec == 5
\* Number of binary places below 1.
Frac == 12

Unit == 2^Frac

Abs(n) == IF n < 0 THEN -n ELSE n

Sgn(n) == IF n < 0 THEN -1 ELSE 1

\* The power of two by which a magnitude q exceeds Prec bits.
RECURSIVE Ulp(_)
Ulp(q) == IF q < 2^Prec THEN 1 ELSE 2 * Ulp(q \div 2)

\* num/den (den > 0) rounded to the nearest float, ties to even.
RoundQ(num, den) ==
    LET a  == Abs(num)
        u  == Ulp(a \div den)
        D  == den * u
        k  == a \div D
        r  == a % D
        up == (2 * r > D) \/ (2 * r = D /\ k % 2 = 1)
    IN  Sgn(num) * (IF up THEN k + 1 ELSE k) * u

\* a*b/den (den > 0) rounded, common factors of two cancelled first.
RECURSIVE RoundR(_, _, _)
RoundR(a, b, den) ==
    IF a = 0 \/ b = 0 THEN 0
    ELSE IF den % 2 = 0 /\ b % 2 = 0 THEN RoundR(a, b \div 2, den \div 2)
    ELSE IF den % 2 = 0 /\ a % 2 = 0 THEN RoundR(a \div 2, b, den \div 2)
    ELSE RoundQ(a * b, den)

\* A float literal written as the decimal num/den.
Lit(num, den) == RoundR(num, Unit, den)

FSub(x, y) == RoundQ(x - y, 1)

FAdd(x, y) == RoundQ(x + y, 1)

FMul(x, y) == RoundR(x, y, Unit)

FDiv(x, y) == Sgn(y) * RoundR(x, Unit, Abs(y))

(***************************************************************************)
(* Constants of the script.                                                *)
(***************************************************************************)
K_HRV == 80 * Unit

K_VO2 == 60 * Unit

C_GREEN == "#00C853"

C_YELLOW == "#FFD600"

C_RED == "#D50000"

C_INFO == "#90A4AE"

DN_GREEN == Lit(95, 100)

DN_RED == Lit(85, 100)

One == Unit

Hundred == 100 * Unit

(***************************************************************************)
(* Helpers.                                                                *)
(***************************************************************************)
Min(a, b) == IF a <= b THEN a ELSE b

Max(a, b) == IF a >= b THEN a ELSE b

\* clamp that lets its argument through.
clamp_through(x, lo, hi) == x

clamp(x, lo, hi) == Max(lo, Min(hi, x))

\* compute_state with the RED comparison taken as "<=".
compute_state_le(pct_change, dn_core, K) ==
    IF pct_change >= K
    THEN [state |-> "INFO", msg |-> "Possible spike / sensor noise", s_color |-> C_INFO]
    ELSE IF pct_change > 0
    THEN [state |-> "GREEN", msg |-> "Recovery / rebound", s_color |-> C_GREEN]
    ELSE IF pct_change < 0
    THEN IF dn_core <= DN_RED
         THEN [state |-> "RED", msg |-> "Reserve collapsing - trigger recommended",
               s_color |-> C_RED]
         ELSE IF dn_core < DN_GREEN
         THEN [state |-> "YELLOW", msg |-> "Load increasing", s_color |-> C_YELLOW]
         ELSE [state |-> "GREEN", msg |-> "Stable", s_color |-> C_GREEN]
    ELSE [state |-> "GREEN", msg |-> "Stable", s_color |-> C_GREEN]

compute_state(pct_change, dn_core, K) ==
    IF pct_change >= K
    THEN [state |-> "INFO", msg |-> "Possible spike / sensor noise", s_color |-> C_INFO]
    ELSE IF pct_change > 0
    THEN [state |-> "GREEN", msg |-> "Recovery / rebound", s_color |-> C_GREEN]
    ELSE IF pct_change < 0
    THEN IF dn_core < DN_RED
         THEN [state |-> "RED", msg |-> "Reserve collapsing - trigger recommended",
               s_color |-> C_RED]
         ELSE IF dn_core < DN_GREEN
         THEN [state |-> "YELLOW", msg |-> "Load increasing", s_color |-> C_YELLOW]
         ELSE [state |-> "GREEN", msg |-> "Stable", s_color |-> C_GREEN]
    ELSE [state |-> "GREEN", msg |-> "Stable", s_color |-> C_GREEN]

(***************************************************************************)
(* The core of one CALCULATE.                                              *)
(***************************************************************************)
\* x / y of Python floats: ZeroDivisionError when y is 0.
TrueDiv(x, y) ==
    IF y = 0 THEN [raised |-> TRUE, val |-> 0]
    ELSE [raised |-> FALSE, val |-> FDiv(x, y)]

\* The percent change without the test for a zero previous value.
PctChange_unguarded(prev_, delta) == TrueDiv(FMul(Hundred, delta), prev_)

\* pct = 0.0 if prev == 0 else 100.0 * delta / prev
PctChange(prev_, delta) ==
    IF prev_ = 0 THEN [raised |-> FALSE, val |-> 0]
    ELSE TrueDiv(FMul(Hundred, delta), prev_)

\* DN_core clamped from above only.
DnCore_upper(pct, k_value) ==
    LET TT_signed == FDiv(pct, k_value)
        TT_abs    == Abs(TT_signed)
    IN  Min(One, FSub(One, FMul(TT_abs, TT_abs)))

\* DN_core as the squared term itself, the "1.0 -" left out.
DnCore_square(pct, k_value) ==
    LET TT_signed == FDiv(pct, k_value)
        TT_abs    == Abs(TT_signed)
    IN  clamp(FMul(TT_abs, TT_abs), 0, One)

\* DN_core = clamp(1.0 - abs(pct / k_value) ** 2, 0.0, 1.0)
DnCore(pct, k_value) ==
    LET TT_signed == FDiv(pct, k_value)
        TT_abs    == Abs(TT_signed)
    IN  clamp(FSub(One, FMul(TT_abs, TT_abs)), 0, One)

\* The sentinel with the rise branch returning the clamped term without the "1.0 +".
DnSentinel_rise(state, pct, TT_signed, DN_core) ==
    IF state = "INFO" \/ pct = 0 THEN One
    ELSE IF pct > 0 THEN clamp(TT_signed, 0, One)
    ELSE DN_core

\* The sentinel without the INFO case in the neutral branch.
DnSentinel_info(state, pct, TT_signed, DN_core) ==
    IF pct = 0 THEN One
    ELSE IF pct > 0 THEN FAdd(One, clamp(TT_signed, 0, One))
    ELSE DN_core

\* The one number of the 0-2 gauge.
DnSentinel(state, pct, TT_signed, DN_core) ==
    IF state = "INFO" \/ pct = 0 THEN One
    ELSE IF pct > 0 THEN FAdd(One, clamp(TT_signed, 0, One))
    ELSE DN_core

\* What the core of a CALCULATE comes to: the record it builds from the two inputs, or
\* the exception it raises.
CalcRecord(prev_, curr_, k_value) ==
    LET delta == FSub(curr_, prev_)
        p     == PctChange(prev_, delta)
        pct   == p.val
        TT_signed == FDiv(pct, k_value)
        DN_core   == DnCore(pct, k_value)
        st        == compute_state(pct, DN_core, k_value)
    IN  IF p.raised THEN [raised |-> TRUE]
        ELSE [raised |-> FALSE,
              rec |-> [prev |-> prev_, curr |-> curr_, delta |-> delta, pct |-> pct,
                       DN_core |-> DN_core,
                       DN_sentinel |-> DnSentinel(st.state, pct, TT_signed, DN_core),
                       state |-> st.state, msg |-> st.msg, s_color |-> st.s_color]]

(***************************************************************************)
(* The two signal tabs and the session.                                    *)
(***************************************************************************)
Tabs == {"hrv", "vo2"}

\* Both tabs given the HRV constant.
KValue_hrv(t) == K_HRV

KValue(t) == IF t = "hrv" THEN K_HRV ELSE K_VO2

DefaultPrev(t) == IF t = "hrv" THEN 20 * Unit ELSE 25 * Unit

DefaultCurr(t) == IF t = "hrv" THEN 22 * Unit ELSE 30 * Unit

StateKey(t) == IF t = "hrv" THEN "hrv_res" ELSE "vo2_res"

StateKeys == {StateKey(t) : t \in Tabs}

None == [state |-> "None"]

\* Values a user types into the (t-1) number input of a tab.
TypedPrev(t) ==
    IF t = "hrv" THEN {v * Unit : v \in {0, 20, 22}}
    ELSE {v * Unit : v \in {0, 25, -25}}

\* Values a user types into the (t) number input of a tab.
TypedCurr(t) ==
    IF t = "hrv" THEN {v * Unit : v \in {0, 16, 20, 22, 36}}
    ELSE {v * Unit : v \in {30, 40, -48, -20, -16}}

VARIABLES
    prev,           \* prev[t]: value of the (t-1) number input of tab t
    curr,           \* curr[t]: value of the (t) number input of tab t
    do_calc,        \* do_calc[t]: what the CALCULATE button of tab t returned in the last run
    session_state,  \* session_state[key]: the cached result under "<tab>_res"
    shown,          \* shown[t]: what the last run rendered in tab t
    call            \* a call of compute_state on its own: arguments and return value

vars == <<prev, curr, do_calc, session_state, shown, call>>

Prompt == [kind |-> "prompt"]

Traceback == [kind |-> "exception"]

Blank == [kind |-> "blank"]

NoCall == [pending |-> FALSE, done |-> FALSE]

NotPressed == [raised |-> FALSE, pressed |-> FALSE]

\* The block run on every run, pressed or not.
Core_always(t, pressed, pv, cv) == CalcRecord(pv, cv, KValue(t))

\* The "if do_calc:" block of a tab: what it computes in a run, if it runs.
Core(t, pressed, pv, cv) ==
    IF pressed THEN CalcRecord(pv, cv, KValue(t)) ELSE NotPressed

\* An update in place that keeps the old pct and state of an existing record.
StoreResult_partial(old, new) ==
    IF old = None THEN new ELSE [new EXCEPT !.pct = old.pct, !.state = old.state]

\* The session_state entry a CALCULATE leaves: the new record, whole.
StoreResult(old, new) == new

\* render_tab_single_signal up to the cache write: the session after the tab's code ran.
RunTab(t, out, ss) ==
    IF out = NotPressed \/ out.raised THEN ss
    ELSE [ss EXCEPT ![StateKey(t)] = StoreResult(ss[StateKey(t)], out.rec)]

\* The rest of render_tab_single_signal: the prompt, or the cards and charts of the cache.
Render(res) ==
    IF res = None THEN Prompt
    ELSE [kind |-> "cards", prev |-> res.prev, curr |-> res.curr, delta |-> res.delta,
          pct |-> res.pct, DN_sentinel |-> res.DN_sentinel, DN_core |-> res.DN_core,
          state |-> res.state, msg |-> res.msg, s_color |-> res.s_color]

\* One run of the script with the given button pressed ("" for none) and the number
\* inputs holding p (t-1) and c (t): HRV tab, then VO2 tab.  An exception in a tab
\* ends the run there.
Run(button, p, c) ==
    \E o1 \in {Core("hrv", button = "hrv", p["hrv"], c["hrv"])} :
    \E o2 \in {Core("vo2", button = "vo2", p["vo2"], c["vo2"])} :
    \E ss1 \in {RunTab("hrv", o1, session_state)} :
    \E ss2 \in {IF o1.raised THEN ss1 ELSE RunTab("vo2", o2, ss1)} :
        /\ prev' = p
        /\ curr' = c
        /\ do_calc' = [t \in Tabs |-> button = t]
        /\ session_state' = ss2
        /\ shown' = [t \in Tabs |->
                        IF t = "hrv"
                        THEN IF o1.raised THEN Traceback ELSE Render(ss2[StateKey("hrv")])
                        ELSE IF o1.raised THEN Blank
                        ELSE IF o2.raised THEN Traceback
                        ELSE Render(ss2[StateKey("vo2")])]

Init ==
    /\ prev = [t \in Tabs |-> DefaultPrev(t)]
    /\ curr = [t \in Tabs |-> DefaultCurr(t)]
    /\ do_calc = [t \in Tabs |-> FALSE]
    /\ session_state = [k \in StateKeys |-> None]
    /\ shown = [t \in Tabs |-> Prompt]
    /\ call = NoCall

EditPrev(t, v) ==
    /\ v # prev[t]
    /\ Run("", [prev EXCEPT ![t] = v], curr)
    /\ UNCHANGED call

EditCurr(t, v) ==
    /\ v # curr[t]
    /\ Run("", prev, [curr EXCEPT ![t] = v])
    /\ UNCHANGED call

Calculate(t) ==
    /\ Run(t, prev, curr)
    /\ UNCHANGED call

Rerun ==
    /\ Run("", prev, curr)
    /\ UNCHANGED call

Next ==
    \/ \E t \in Tabs : \E v \in TypedPrev(t) : EditPrev(t, v)
    \/ \E t \in Tabs : \E v \in TypedCurr(t) : EditCurr(t, v)
    \/ \E t \in Tabs : Calculate(t)
    \/ Rerun

Spec == Init /\ [][Next]_vars

(***************************************************************************)
(* compute_state called on its own, on arguments drawn from the floats     *)
(* around its thresholds.                                                  *)
(***************************************************************************)
\* Largest magnitude of the percent changes handed to compute_state directly.
MaxPct == 100

IsFloat(n) == RoundQ(n, 1) = n

PctArgs == {p * Unit : p \in {q \in -MaxPct..MaxPct : IsFloat(q * Unit)}}

DnStep == Unit \div 2^(Prec + 1)

DnArgs == {d * DnStep : d \in {e \in 0..2^(Prec + 1) : IsFloat(e * DnStep)}}

InitCall ==
    /\ prev = [t \in Tabs |-> DefaultPrev(t)]
    /\ curr = [t \in Tabs |-> DefaultCurr(t)]
    /\ do_calc = [t \in Tabs |-> FALSE]
    /\ session_state = [k \in StateKeys |-> None]
    /\ shown = [t \in Tabs |-> Prompt]
    /\ call \in {[pending |-> TRUE, done |-> FALSE, pct |-> p, dn_core |-> d, K |-> KValue(t)] :
                    p \in PctArgs, d \in DnArgs, t \in Tabs}

Classify ==
    /\ call.pending
    /\ call' = [pending |-> FALSE, done |-> TRUE,
                pct |-> call.pct, dn_core |-> call.dn_core, K |-> call.K,
                ret |-> compute_state(call.pct, call.dn_core, call.K)]
    /\ UNCHANGED <<prev, curr, do_calc, session_state, shown>>

NextCall == Classify

SpecCall == InitCall /\ [][NextCall]_vars

(***************************************************************************)
(* Properties.                                                             *)
(***************************************************************************)
Res(t) == session_state[StateKey(t)]

\* The constant each tab is meant to use.
OwnK(t) == IF t = "vo2" THEN K_VO2 ELSE K_HRV

\* C1: compute_state follows the decision table: pct >= K is INFO whatever dn_core is;
\* otherwise pct > 0 is GREEN; pct < 0 is RED below DN_RED, YELLOW from DN_RED (inclusive)
\* to below DN_GREEN, GREEN from DN_GREEN on; pct = 0 is GREEN.
C1_DecisionTable ==
    call.done =>
        LET p == call.pct
            d == call.dn_core
            s == call.ret.state
        IN  /\ (p >= call.K) => s = "INFO"
            /\ (p < call.K /\ p > 0) => s = "GREEN"
            /\ (p < 0 /\ d < DN_RED) => s = "RED"
            /\ (p < 0 /\ d >= DN_RED /\ d < DN_GREEN) => s = "YELLOW"
            /\ (p < 0 /\ d >= DN_GREEN) => s = "GREEN"
            /\ (p = 0) => s = "GREEN"

C1_Witness ==
    /\ call.done
    /\ call.pct < 0
    /\ call.dn_core = DN_RED
    /\ call.ret.state = "YELLOW"

\* C2: the stored sentinel is 1.0 when the state is INFO or pct = 0, 1 + clamp(pct/K, 0, 1)
\* when pct > 0 and the state is not INFO, and DN_core when pct < 0.
C2_SentinelValue ==
    \A t \in Tabs :
        Res(t) # None =>
            LET r == Res(t)
            IN  /\ (r.state = "INFO" \/ r.pct = 0) => r.DN_sentinel = One
                /\ (r.pct > 0 /\ r.state # "INFO") =>
                       r.DN_sentinel = FAdd(One, Max(0, Min(One, FDiv(r.pct, OwnK(t)))))
                /\ (r.pct < 0) => r.DN_sentinel = r.DN_core

C2_Witness ==
    /\ Res("hrv") # None /\ Res("hrv").pct > 0 /\ Res("hrv").state # "INFO"
    /\ Res("vo2") # None /\ Res("vo2").pct < 0

\* C3: the stored sentinel lies in [0, 2], for zero and negative inputs and both constants.
C3_SentinelRange ==
    \A t \in Tabs :
        Res(t) # None => (0 <= Res(t).DN_sentinel /\ Res(t).DN_sentinel <= 2 * One)

C3_Witness ==
    /\ Res("hrv") # None /\ Res("hrv").prev = 0
    /\ Res("vo2") # None /\ Res("vo2").prev < 0 /\ Res("vo2").curr < 0

\* C4: the stored DN_core is 1 - (pct/K)^2 clamped to [0, 1]: it is in [0, 1], equals
\* 1 - (pct/K)^2 whenever |pct| <= K and equals 0 whenever |pct| >= K.
C4_DnCore ==
    \A t \in Tabs :
        Res(t) # None =>
            LET r   == Res(t)
                T   == FDiv(r.pct, OwnK(t))
                raw == FSub(One, FMul(T, T))
            IN  /\ 0 <= r.DN_core /\ r.DN_core <= One
                /\ (Abs(r.pct) <= OwnK(t)) => r.DN_core = raw
                /\ (Abs(r.pct) >= OwnK(t)) => r.DN_core = 0

C4_Witness ==
    /\ Res("hrv") # None /\ Res("hrv").pct = K_HRV
    /\ Res("vo2") # None /\ Res("vo2").pct < 0 - K_VO2

\* C5: with a previous value of 0 a CALCULATE does not fail: it stores a record with
\* pct = 0, DN_core = 1, state GREEN ("Stable"), sentinel 1 and delta = curr - prev.
C5_ZeroPrevious ==
    \A t \in Tabs :
        /\ (do_calc[t] /\ prev[t] = 0) =>
               /\ shown[t].kind = "cards"
               /\ Res(t) # None /\ Res(t).prev = 0 /\ Res(t).curr = curr[t]
        /\ (Res(t) # None /\ Res(t).prev = 0) =>
               /\ Res(t).pct = 0
               /\ Res(t).DN_core = One
               /\ Res(t).state = "GREEN" /\ Res(t).msg = "Stable"
               /\ Res(t).DN_sentinel = One
               /\ Res(t).delta = Res(t).curr - Res(t).prev

C5_Witness ==
    /\ do_calc["vo2"] /\ prev["vo2"] = 0 /\ curr["vo2"] # 0
    /\ Res("hrv") # None /\ Res("hrv").prev = 0 /\ Res("hrv").curr # 0

\* C6: each cached result is None or a whole record of one CALCULATE: every field follows
\* from the record's own prev and curr and the tab's K (delta, pct with the zero rule,
\* DN_core, state/msg/colour of compute_state, sentinel of the three zones).
C6_WholeRecord ==
    \A t \in Tabs :
        \/ Res(t) = None
        \/ LET r     == Res(t)
               K     == OwnK(t)
               delta == FSub(r.curr, r.prev)
               pct   == IF r.prev = 0 THEN 0 ELSE FDiv(FMul(Hundred, delta), r.prev)
               T     == FDiv(pct, K)
               dn    == Max(0, Min(One, FSub(One, FMul(T, T))))
               st    == compute_state(pct, dn, K)
               sen   == IF st.state = "INFO" \/ pct = 0 THEN One
                        ELSE IF pct > 0 THEN FAdd(One, Max(0, Min(One, T)))
                        ELSE dn
           IN  /\ DOMAIN r = {"prev", "curr", "delta", "pct", "DN_core",
                              "DN_sentinel", "state", "msg", "s_color"}
               /\ r.delta = delta
               /\ r.pct = pct
               /\ r.DN_core = dn
               /\ r.state = st.state /\ r.msg = st.msg /\ r.s_color = st.s_color
               /\ r.DN_sentinel = sen

C6_Witness ==
    \A t \in Tabs :
        /\ Res(t) # None
        /\ Res(t).prev # DefaultPrev(t) /\ Res(t).curr # DefaultCurr(t)
        /\ prev[t] # Res(t).prev /\ curr[t] # Res(t).curr

\* C7: a CALCULATE on one tab writes that tab's entry only, computed with that tab's K
\* (80 for "hrv_res", 60 for "vo2_res"), and leaves the other tab's entry as it was.
C7_OwnEntryOwnK ==
    [][\A t \in Tabs :
          do_calc'[t] =>
              /\ \A o \in Tabs \ {t} : Res(o)' = Res(o)
              /\ LET r == Res(t)'
                     T == FDiv(r.pct, OwnK(t))
                 IN  /\ r # None
                     /\ r.prev = prev[t] /\ r.curr = curr[t]
                     /\ r.DN_core = Max(0, Min(One, FSub(One, FMul(T, T))))
                     /\ (r.state = "INFO") = (r.pct >= OwnK(t))]_vars

C7_Witness ==
    /\ do_calc["vo2"]
    /\ Res("hrv") # None
    /\ Res("vo2").pct > 0 /\ Res("vo2").pct < K_VO2

\* C8: a tab's cached result is None at the start and changes only in a run where that
\* tab's CALCULATE is pressed, which takes the inputs of that run; without it the cache
\* and what is displayed stay as they were; the tab shows the prompt exactly while the
\* cache is None and otherwise the cached prev/curr; a result never goes back to None.
C8_Step ==
    \A t \in Tabs :
        /\ ~do_calc'[t] => (Res(t)' = Res(t) /\ shown'[t] = shown[t])
        /\ do_calc'[t] => (Res(t)'.prev = prev'[t] /\ Res(t)'.curr = curr'[t])
        /\ Res(t) # None => Res(t)' # None

C8_Display ==
    \A t \in Tabs :
        /\ (shown[t] = Prompt) = (Res(t) = None)
        /\ Res(t) # None =>
               /\ shown[t].kind = "cards"
               /\ shown[t].prev = Res(t).prev /\ shown[t].curr = Res(t).curr
               /\ shown[t].pct = Res(t).pct /\ shown[t].DN_sentinel = Res(t).DN_sentinel
               /\ shown[t].state = Res(t).state

C8_ChangesOnlyOnCalculate ==
    /\ \A t \in Tabs : Res(t) = None /\ shown[t] = Prompt
    /\ [][C8_Step]_vars
    /\ []C8_Display

C8_Witness ==
    /\ ~do_calc["hrv"]
    /\ Res("hrv") # None
    /\ prev["hrv"] # Res("hrv").prev /\ curr["hrv"] # Res("hrv").curr
    /\ shown["hrv"].prev = Res("hrv").prev /\ shown["hrv"].curr = Res("hrv").curr
    /\ Res("vo2") = None /\ shown["vo2"] = Prompt
    /\ prev["vo2"] # DefaultPrev("vo2")

\* C9 as stated: pct < 0 gives 0 <= sentinel < 1; pct = 0 or pct >= K gives exactly 1;
\* 0 < pct < K gives 1 < sentinel < 2; so the sentinel is 1 only for INFO or pct = 0,
\* and 2 is never produced.
C9_StrictZones ==
    \A t \in Tabs :
        Res(t) # None =>
            LET r == Res(t)
            IN  /\ (r.pct < 0) => (0 <= r.DN_sentinel /\ r.DN_sentinel < One)
                /\ (r.pct = 0 \/ r.pct >= OwnK(t)) => r.DN_sentinel = One
                /\ (r.pct > 0 /\ r.pct < OwnK(t)) =>
                       (One < r.DN_sentinel /\ r.DN_sentinel < 2 * One)
                /\ (r.DN_sentinel = One) = (r.state = "INFO" \/ r.pct = 0)
                /\ r.DN_sentinel # 2 * One

\* C9 (amended): the zones are closed at the far ends: pct < 0 gives 0 <= sentinel <= 1;
\* pct = 0 or pct >= K gives exactly 1; 0 < pct < K gives 1 < sentinel <= 2, without the
\* upper clamp taking effect; INFO or pct = 0 gives 1, a sentinel below 1 means a drop and
\* a sentinel above 1 means a rise below K.
C9_ClosedZones ==
    \A t \in Tabs :
        Res(t) # None =>
            LET r == Res(t)
                T == FDiv(r.pct, OwnK(t))
            IN  /\ (r.pct < 0) => (0 <= r.DN_sentinel /\ r.DN_sentinel <= One)
                /\ (r.pct = 0 \/ r.pct >= OwnK(t)) => r.DN_sentinel = One
                /\ (r.pct > 0 /\ r.pct < OwnK(t)) =>
                       /\ One < r.DN_sentinel /\ r.DN_sentinel <= 2 * One
                       /\ T <= One /\ r.DN_sentinel = FAdd(One, T)
                /\ (r.state = "INFO" \/ r.pct = 0) => r.DN_sentinel = One
                /\ (r.DN_sentinel < One) => r.pct < 0
                /\ (r.DN_sentinel > One) => (r.pct > 0 /\ r.pct < OwnK(t))

C9_Witness ==
    /\ Res("hrv") # None /\ Res("hrv").pct < 0 /\ Res("hrv").DN_sentinel = One
    /\ Res("vo2") # None /\ Res("vo2").pct < K_VO2 /\ Res("vo2").DN_sentinel = 2 * One

\* C10: for one tab (one K), of two results one after the other, the one with the smaller
\* percent change has the smaller or equal sentinel as long as both are below K; a result
\* with pct >= K has sentinel 1, strictly below that of any result with 0 < pct < K.
C10_Pair(a, b, K) ==
    /\ (a.pct <= b.pct /\ b.pct < K) => a.DN_sentinel <= b.DN_sentinel
    /\ (a.pct >= K /\ b.pct > 0 /\ b.pct < K) =>
           (a.DN_sentinel = One /\ a.DN_sentinel < b.DN_sentinel)

C10_MonotoneBelowK ==
    [][\A t \in Tabs :
          (Res(t) # None /\ Res(t)' # None) =>
              /\ C10_Pair(Res(t), Res(t)', OwnK(t))
              /\ C10_Pair(Res(t)', Res(t), OwnK(t))]_vars

C10_Witness ==
    /\ do_calc["hrv"]
    /\ Res("hrv").pct >= K_HRV
    /\ Res("vo2") # None /\ Res("vo2").pct < 0 /\ Res("vo2").DN_sentinel > 0
====
